---- MODULE Spec2Model ----
(***************************************************************************)
(* Bid acceptance, auction creation/removal, settlement and republish of   *)
(* the auction platform, over one MongoDB store holding the Auction, Bid   *)
(* and User collections.                                                   *)
(*                                                                         *)
(* A handler that awaits a store call, then opens a transaction, is two    *)
(* steps: the pre-transaction part puts the request in `inflight`, the     *)
(* transaction part takes it out.  Every transaction of the source writes  *)
(* the Auction document it read, so the store's write-conflict detection   *)
(* (a conflicting callback is run again by withTransaction on a fresh      *)
(* snapshot) makes the attempt that commits read the state it commits on:  *)
(* a transaction is one atomic step.  A request that fails validation is   *)
(* answered at once and leaves no trace: it is a step that changes         *)
(* nothing.                                                                *)
(***************************************************************************)
EXTENDS Integers, Sequences, FiniteSets, Bags, TLC

\* ------------------------------------------------------------------ bounds
MaxTime == 2
MaxAmount == 2
MaxInFlight == 2
MaxCalls == 4

\* ------------------------------------------------------------- input sets
\* "a1" is the id the store hands out first; "a2" is a well-formed id, of no
\* document until a second auction is created
AuctionIds == {"a1", "a2"}
FreshIds == <<"a1">>
BadId == "bad"
IdInputs == AuctionIds \cup {BadId}
Sellers == {"s1", "s2"}
Bidders == {"b1", "b2"}
Registered == Sellers \cup Bidders
Ghost == "g"
NoUser == "null"
Missing == 0 - 1
Amounts == 0 .. MaxAmount
StartingBids == {0, 1, 2}
Images == {"none", "gif", "png"}
Creators == {"s1"}

\* the windows a request may carry at time t: the two shortest valid ones, and
\* one for each way of being rejected
ValidWindows(t) == {<<t, t + 1>>, <<t + 1, t + 2>>}
InvalidWindows(t) ==
  {<<Missing, t + 1>>, <<t, Missing>>, <<t - 1, t + 1>>, <<t + 1, t + 1>>, <<t + 1, t>>}

VARIABLES
  now,        \* Date.now()
  auctions,   \* the Auction collection: id -> document
  fresh,      \* the ids the store has yet to hand out (an _id is never reused)
  bids,       \* the Bid collection: a bag of documents
  users,      \* the User collection: id -> document
  inflight,   \* requests past their pre-transaction part
  resp,       \* the outcome of the last accepted request that completed
  calls       \* the requests accepted so far

vars == <<now, auctions, fresh, bids, users, inflight, resp, calls>>
store == <<auctions, bids, users>>

DB == [auctions |-> auctions, bids |-> bids, users |-> users]

Request(op, id, user, amount, startTime, endTime) ==
  [op |-> op, id |-> id, user |-> user, amount |-> amount,
   startTime |-> startTime, endTime |-> endTime]

\* ------------------------------------------------------------- documents
NewUser == [moneySpent |-> 0, auctionsWon |-> 0, unpaidCommission |-> 0]

NewAuction(user, startingBid, startTime, endTime) ==
  [createdBy |-> user, startingBid |-> startingBid, currentBid |-> 0,
   startTime |-> startTime, endTime |-> endTime, bids |-> <<>>,
   highestBidder |-> NoUser, commissionCalculated |-> FALSE]

NewBid(user, id, amount) == [bidder |-> user, auctionItem |-> id, amount |-> amount]

NoBid == [bidder |-> NoUser, auctionItem |-> "null", amount |-> 0]

\* ------------------------------------------------------ function helpers
Put(f, k, v) == [x \in DOMAIN f \cup {k} |-> IF x = k THEN v ELSE f[x]]
Drop(f, k) == [x \in DOMAIN f \ {k} |-> f[x]]

\* ----------------------------------------------------------- transactions
Throw(db, status) == [err |-> status, db |-> db]
Return(db) == [err |-> "none", db |-> db]

\* as WithTransaction, but a callback that throws keeps the writes it made
WithoutTransaction(db, res) == res.db

\* session.withTransaction: the callback's writes are committed when it
\* returns and discarded when it throws
WithTransaction(db, res) == IF res.err = "none" THEN res.db ELSE db

\* ----------------------------------------------------------------- placeBid
\* Bid.findOne({"bidder.id": user, auctionItem: id}): any one matching
\* document, NoBid (null) when there is none
FindOne(bs, user, id) ==
  LET found == {b \in BagToSet(bs) : b.bidder = user /\ b.auctionItem = id}
  IN IF found = {} THEN {NoBid} ELSE found

\* as ExistingBidInAuction, but the comparison of ids never matches
ExistingBidInAuctionUnmatched(auction, user) == 0

\* auction.bids.find(b => b.userId === user): the index of the first entry of
\* the bidder, 0 (undefined) when there is none
ExistingBidInAuction(auction, user) ==
  LET at == {i \in 1 .. Len(auction.bids) : auction.bids[i].userId = user}
  IN IF at = {} THEN 0 ELSE CHOOSE i \in at : \A j \in at : i <= j

\* as PlaceBidCheck, but the amount is not compared with startingBid
PlaceBidCheckAboveCurrentOnly(as, id, amount) ==
  IF id \notin DOMAIN as THEN "NotFound"
  ELSE IF amount = 0 THEN "InvalidInput"
  ELSE IF amount <= as[id].currentBid THEN "Rejected"
  ELSE "none"

\* the checks made on the auction read before the transaction
PlaceBidCheck(as, id, amount) ==
  IF id \notin DOMAIN as THEN "NotFound"
  ELSE IF amount = 0 THEN "InvalidInput"
  ELSE IF amount <= as[id].currentBid THEN "Rejected"
  ELSE IF amount < as[id].startingBid THEN "Rejected"
  ELSE "none"

PlaceBidFaults == {"none", "read", "bidSave", "bidsSave", "currentBidSave"}

\* as UpdateBoth, but the Bid document is not saved
UpdateEmbeddedOnly(db, id, existingBid, at, amount, fault) ==
  IF fault \in {"bidSave", "bidsSave"} THEN Throw(db, "Internal")
  ELSE Return([db EXCEPT !.auctions[id].bids[at].amount = amount])

\* the existing Bid document and the bidder's embedded entry both carry the
\* new amount
UpdateBoth(db, id, existingBid, at, amount, fault) ==
  LET auction == db.auctions[id]
      db1 == [db EXCEPT !.bids =
                (@ (-) SetToBag({existingBid}))
                  (+) SetToBag({[existingBid EXCEPT !.amount = amount]})]
      db2 == [db1 EXCEPT !.auctions[id].bids[at].amount = amount]
  IN IF fault = "bidSave" THEN Throw(db, "Internal")
     ELSE IF fault = "bidsSave" THEN Throw(db1, "Internal")
     ELSE Return(db2)

\* as CreateBoth, but the entry is not pushed to auction.bids
CreateBidOnly(db, id, user, amount, fault) ==
  IF user \notin DOMAIN db.users THEN Throw(db, "NotFound")
  ELSE IF fault \in {"bidSave", "bidsSave"} THEN Throw(db, "Internal")
  ELSE Return([db EXCEPT !.bids = @ (+) SetToBag({NewBid(user, id, amount)})])

\* a new Bid document and a new embedded entry
CreateBoth(db, id, user, amount, fault) ==
  LET db1 == [db EXCEPT !.bids = @ (+) SetToBag({NewBid(user, id, amount)})]
      db2 == [db1 EXCEPT !.auctions[id].bids =
                Append(@, [userId |-> user, amount |-> amount])]
  IN IF user \notin DOMAIN db.users THEN Throw(db, "NotFound")
     ELSE IF fault = "bidSave" THEN Throw(db, "Internal")
     ELSE IF fault = "bidsSave" THEN Throw(db1, "Internal")
     ELSE Return(db2)

\* auction.currentBid = amount; auction.save()
SetCurrentBid(res, id, amount, fault) ==
  IF res.err # "none" THEN res
  ELSE IF fault = "currentBidSave" THEN Throw(res.db, "Internal")
  ELSE Return([res.db EXCEPT !.auctions[id].currentBid = amount])

\* the callback handed to withTransaction
PlaceBidCallback(db, r, existingBid, fault) ==
  IF fault = "read" THEN Throw(db, "Internal")
  ELSE IF r.id \notin DOMAIN db.auctions THEN Throw(db, "NotFound")
  ELSE LET at == ExistingBidInAuction(db.auctions[r.id], r.user)
       IN SetCurrentBid(
            IF existingBid # NoBid /\ at # 0
              THEN UpdateBoth(db, r.id, existingBid, at, r.amount, fault)
              ELSE CreateBoth(db, r.id, r.user, r.amount, fault),
            r.id, r.amount, fault)

\* the store after the transaction, and the response
Commit(db, res) ==
  /\ auctions' = WithTransaction(db, res).auctions
  /\ bids' = WithTransaction(db, res).bids
  /\ users' = WithTransaction(db, res).users
  /\ resp' = IF res.err = "none" THEN "Ok" ELSE res.err

\* lines 9-27: the auction is read and the amount checked
PlaceBid(id, user, amount) ==
  /\ IF PlaceBidCheck(auctions, id, amount) # "none"
       THEN UNCHANGED <<inflight, calls, resp>>
       ELSE /\ Cardinality(inflight) < MaxInFlight
            /\ calls < MaxCalls
            /\ calls' = calls + 1
            /\ inflight' = inflight \cup {Request("placeBid", id, user, amount, 0, 0)}
            /\ UNCHANGED resp
  /\ UNCHANGED <<now, auctions, fresh, bids, users>>

\* lines 29-112: the transaction and the response
PlaceBidTransaction(r, fault) ==
  /\ r \in inflight
  /\ r.op = "placeBid"
  /\ \E existingBid \in FindOne(bids, r.user, r.id) :
       Commit(DB, PlaceBidCallback(DB, r, existingBid, fault))
  /\ inflight' = inflight \ {r}
  /\ UNCHANGED <<now, fresh, calls>>

\* ---------------------------------------------------------------- republish
RepublishCheck(t, id, startTime, endTime) ==
  IF id = BadId THEN "InvalidInput"
  ELSE IF startTime = Missing \/ endTime = Missing THEN "InvalidInput"
  ELSE IF startTime < t THEN "Rejected"
  ELSE IF startTime >= endTime THEN "Rejected"
  ELSE "none"

RepublishFaults == {"none", "read", "hbSave", "auctionSave", "deleteMany", "creatorSave"}

\* 2) the highest bidder's stats are rolled back
RollBackHighestBidder(db, id, fault) ==
  LET auction == db.auctions[id]
      hb == auction.highestBidder
  IN IF hb = NoUser THEN Return(db)
     ELSE IF hb \notin DOMAIN db.users THEN Throw(db, "NotFound")
     ELSE IF fault = "hbSave" THEN Throw(db, "Internal")
     ELSE Return([db EXCEPT !.users[hb].moneySpent = @ - auction.currentBid,
                            !.users[hb].auctionsWon = @ - 1])

\* as ResetAuction, but highestBidder is left as it was
ResetAuctionKeepingWinner(res, r, fault) ==
  IF res.err # "none" THEN res
  ELSE IF fault = "auctionSave" THEN Throw(res.db, "Internal")
  ELSE Return([res.db EXCEPT !.auctions[r.id] =
                 [@ EXCEPT !.startTime = r.startTime, !.endTime = r.endTime,
                           !.bids = <<>>, !.commissionCalculated = FALSE,
                           !.currentBid = 0]])

\* 3) the auction's fields are reset
ResetAuction(res, r, fault) ==
  IF res.err # "none" THEN res
  ELSE IF fault = "auctionSave" THEN Throw(res.db, "Internal")
  ELSE Return([res.db EXCEPT !.auctions[r.id] =
                 [@ EXCEPT !.startTime = r.startTime, !.endTime = r.endTime,
                           !.bids = <<>>, !.commissionCalculated = FALSE,
                           !.currentBid = 0, !.highestBidder = NoUser]])

\* as DeleteBids, but the filter on auctionItem is dropped
DeleteEveryBid(res, r, fault) ==
  IF res.err # "none" THEN res
  ELSE IF fault = "deleteMany" THEN Throw(res.db, "Internal")
  ELSE Return([res.db EXCEPT !.bids = EmptyBag])

\* 4) Bid.deleteMany({auctionItem: id})
DeleteBids(res, r, fault) ==
  IF res.err # "none" THEN res
  ELSE IF fault = "deleteMany" THEN Throw(res.db, "Internal")
  ELSE LET gone == {b \in BagToSet(res.db.bids) : b.auctionItem = r.id}
       IN Return([res.db EXCEPT !.bids =
                    [b \in BagToSet(@) \ gone |-> @[b]]])

\* 5) User.findById(req.user._id), unpaidCommission = 0
ResetCreator(res, r, fault) ==
  IF res.err # "none" THEN res
  ELSE IF r.user \notin DOMAIN res.db.users THEN Throw(res.db, "NotFound")
  ELSE IF fault = "creatorSave" THEN Throw(res.db, "Internal")
  ELSE Return([res.db EXCEPT !.users[r.user].unpaidCommission = 0])

\* as RepublishCallback, but an auction that has not ended is republished too
RepublishCallbackLive(db, r, t, fault) ==
  IF fault = "read" THEN Throw(db, "Internal")
  ELSE IF r.id \notin DOMAIN db.auctions THEN Throw(db, "NotFound")
  ELSE ResetCreator(
         DeleteBids(ResetAuction(RollBackHighestBidder(db, r.id, fault), r, fault),
                    r, fault),
         r, fault)

\* the callback handed to withTransaction
RepublishCallback(db, r, t, fault) ==
  IF fault = "read" THEN Throw(db, "Internal")
  ELSE IF r.id \notin DOMAIN db.auctions THEN Throw(db, "NotFound")
  ELSE IF db.auctions[r.id].endTime > t THEN Throw(db, "Rejected")
  ELSE ResetCreator(
         DeleteBids(ResetAuction(RollBackHighestBidder(db, r.id, fault), r, fault),
                    r, fault),
         r, fault)

\* lines 348-375: the request is validated
RepublishItem(id, user, startTime, endTime) ==
  /\ IF RepublishCheck(now, id, startTime, endTime) # "none"
       THEN UNCHANGED <<inflight, calls, resp>>
       ELSE /\ Cardinality(inflight) < MaxInFlight
            /\ calls < MaxCalls
            /\ calls' = calls + 1
            /\ inflight' = inflight \cup {Request("republish", id, user, 0, startTime, endTime)}
            /\ UNCHANGED resp
  /\ UNCHANGED <<now, auctions, fresh, bids, users>>

\* lines 377-443: the transaction and the response
RepublishTransaction(r, fault) ==
  /\ r \in inflight
  /\ r.op = "republish"
  /\ Commit(DB, RepublishCallback(DB, r, now, fault))
  /\ inflight' = inflight \ {r}
  /\ UNCHANGED <<now, fresh, calls>>

\* ------------------------------------------------------- addNewAuctionItem

\* Auction.find({createdBy: user, endTime: {$gt: now}})
AlreadyOneAuctionActive(as, user, t) ==
  {id \in DOMAIN as : as[id].createdBy = user /\ as[id].endTime > t}

AddNewAuctionItemCheck(as, t, user, image, startingBid, startTime, endTime) ==
  IF image = "none" THEN "InvalidInput"
  ELSE IF image # "png" THEN "InvalidInput"
  ELSE IF startingBid = 0 \/ startTime = Missing \/ endTime = Missing
    THEN "InvalidInput"
  ELSE IF startTime < t THEN "Rejected"
  ELSE IF startTime >= endTime THEN "Rejected"
  ELSE IF AlreadyOneAuctionActive(as, user, t) # {} THEN "Rejected"
  ELSE "none"

\* lines 198-251: validation and the active-auction check
AddNewAuctionItem(user, image, startingBid, startTime, endTime) ==
  /\ IF AddNewAuctionItemCheck(auctions, now, user, image, startingBid,
                               startTime, endTime) # "none"
       THEN UNCHANGED <<inflight, calls, resp>>
       ELSE /\ Cardinality(inflight) < MaxInFlight
            /\ calls < MaxCalls
            /\ calls' = calls + 1
            /\ inflight' = inflight \cup
                 {Request("create", "null", user, startingBid, startTime, endTime)}
            /\ UNCHANGED resp
  /\ UNCHANGED <<now, auctions, fresh, bids, users>>

\* lines 253-292: the image upload, then Auction.create
AddNewAuctionItemCreate(r, upload) ==
  /\ r \in inflight
  /\ r.op = "create"
  /\ inflight' = inflight \ {r}
  /\ IF upload = "ok" /\ fresh # <<>>
       THEN /\ auctions' = Put(auctions, Head(fresh),
                               NewAuction(r.user, r.amount, r.startTime, r.endTime))
            /\ fresh' = Tail(fresh)
            /\ resp' = "Ok"
       ELSE /\ resp' = "Internal"
            /\ UNCHANGED <<auctions, fresh>>
  /\ UNCHANGED <<now, bids, users, calls>>

\* -------------------------------------------------------- removeFromAuction
RemoveFromAuction(id) ==
  /\ IF id = BadId \/ id \notin DOMAIN auctions
       THEN UNCHANGED <<auctions, calls, resp>>
       ELSE /\ calls < MaxCalls
            /\ calls' = calls + 1
            /\ auctions' = Drop(auctions, id)
            /\ resp' = "Ok"
  /\ UNCHANGED <<now, fresh, bids, users, inflight>>

\* --------------------------------------------------------------- settlement
\* the Commission Policy collaborator
Commission(currentBid) == (currentBid + 1) \div 2

\* the bidder with the maximum amount in the embedded list, the earliest one
\* on ties
Winner(auction) ==
  LET best == CHOOSE i \in 1 .. Len(auction.bids) :
                /\ \A j \in 1 .. Len(auction.bids) :
                     auction.bids[j].amount <= auction.bids[i].amount
                /\ \A j \in 1 .. (i - 1) :
                     auction.bids[j].amount < auction.bids[i].amount
  IN auction.bids[best].userId

\* as Due, but an auction already settled is due again
DueWhateverTheFlag(as, t) == {id \in DOMAIN as : as[id].endTime <= t}

\* the auctions a settlement pass processes: ended and not yet settled
Due(as, t) == {id \in DOMAIN as : as[id].endTime <= t /\ ~as[id].commissionCalculated}

\* one auction's settlement transaction
SettleCallback(db, id) ==
  LET auction == db.auctions[id]
  IN IF auction.bids = <<>>
       THEN Return([db EXCEPT !.auctions[id].commissionCalculated = TRUE])
     ELSE IF Winner(auction) \notin DOMAIN db.users
             \/ auction.createdBy \notin DOMAIN db.users
       THEN Throw(db, "NotFound")
     ELSE Return([db EXCEPT
            !.auctions[id].highestBidder = Winner(auction),
            !.auctions[id].commissionCalculated = TRUE,
            !.users[Winner(auction)].moneySpent = @ + auction.currentBid,
            !.users[Winner(auction)].auctionsWon = @ + 1,
            !.users[auction.createdBy].unpaidCommission =
               @ + Commission(auction.currentBid)])

Settle(id) ==
  /\ id \in Due(auctions, now)
  /\ Commit(DB, SettleCallback(DB, id))
  /\ UNCHANGED <<now, fresh, inflight, calls>>

\* --------------------------------------------------------------------- time
Tick ==
  /\ now < MaxTime
  /\ now' = now + 1
  /\ UNCHANGED <<auctions, fresh, bids, users, inflight, resp, calls>>

\* -------------------------------------------------------------- the system
Init ==
  /\ now = 0
  /\ auctions = << >>
  /\ fresh = FreshIds
  /\ bids = EmptyBag
  /\ users = [u \in Registered |-> NewUser]
  /\ inflight = {}
  /\ resp = "none"
  /\ calls = 0

Next ==
  \/ \E id \in AuctionIds, user \in Bidders, amount \in Amounts :
       PlaceBid(id, user, amount)
  \/ \E r \in inflight, fault \in PlaceBidFaults : PlaceBidTransaction(r, fault)
  \/ \E user \in Sellers \cup {Ghost}, w \in ValidWindows(now) :
       RepublishItem("a1", user, w[1], w[2])
  \/ \E w \in InvalidWindows(now) : RepublishItem("a1", "s1", w[1], w[2])
  \/ RepublishItem(BadId, "s1", now, now + 1)
  \/ \E r \in inflight, fault \in RepublishFaults : RepublishTransaction(r, fault)
  \/ \E user \in Creators, startingBid \in StartingBids \ {0}, w \in ValidWindows(now) :
       AddNewAuctionItem(user, "png", startingBid, w[1], w[2])
  \/ \E w \in InvalidWindows(now) : AddNewAuctionItem("s1", "png", 1, w[1], w[2])
  \/ \E image \in Images \ {"png"} : AddNewAuctionItem("s1", image, 1, now, now + 1)
  \/ AddNewAuctionItem("s1", "png", 0, now, now + 1)
  \/ \E r \in inflight, upload \in {"ok", "error"} : AddNewAuctionItemCreate(r, upload)
  \/ \E id \in IdInputs : RemoveFromAuction(id)
  \/ \E id \in AuctionIds : Settle(id)
  \/ Tick

Spec == Init /\ [][Next]_vars

\* ------------------------------------------------------------ observations
\* ------------------------------------------------- two auctions side by side
\* The store once "a1", created by s1 for the window 0 to 1, has ended at time
\* 1 and s1 has created "a2" at time 1 for the window 1 to 2: each auction
\* carries the bids of a run of sequential placeBid calls.  The store calls of
\* the transactions succeed here.
SeedBids ==
  {<<>>,
   <<[userId |-> "b1", amount |-> 1]>>,
   <<[userId |-> "b1", amount |-> 1], [userId |-> "b2", amount |-> 2]>>}

SeedAuction(user, startTime, endTime, entries) ==
  [NewAuction(user, 1, startTime, endTime) EXCEPT
     !.bids = entries,
     !.currentBid = IF entries = <<>> THEN 0 ELSE entries[Len(entries)].amount]

SeedBag(id, entries) ==
  SetToBag({NewBid(entries[i].userId, id, entries[i].amount) : i \in 1 .. Len(entries)})

InitTwo ==
  /\ now = 1
  /\ \E entries1 \in SeedBids, entries2 \in SeedBids :
       /\ auctions = [id \in AuctionIds |->
                        IF id = "a1" THEN SeedAuction("s1", 0, 1, entries1)
                        ELSE SeedAuction("s1", 1, 2, entries2)]
       /\ bids = SeedBag("a1", entries1) (+) SeedBag("a2", entries2)
  /\ fresh = <<>>
  /\ users = [u \in Registered |-> NewUser]
  /\ inflight = {}
  /\ resp = "none"
  /\ calls = 0

NextTwo ==
  \/ \E id \in AuctionIds, user \in Bidders, amount \in Amounts :
       PlaceBid(id, user, amount)
  \/ \E r \in inflight : PlaceBidTransaction(r, "none")
  \/ \E id \in AuctionIds, w \in ValidWindows(now) :
       RepublishItem(id, "s1", w[1], w[2])
  \/ \E r \in inflight : RepublishTransaction(r, "none")
  \/ \E id \in AuctionIds : Settle(id)
  \/ Tick

SpecTwo == InitTwo /\ [][NextTwo]_vars

\* ------------------------------------------ a store written by the old placeBid
\* The store left by the earlier placeBid (lines 143-176), which created the
\* Bid document and saved the auction in two separate writes, when the second
\* write failed: bidder `user` has a Bid document on "a1" and no embedded
\* entry, and currentBid is still what the other bidder made it.
HalfBid(user, amount, entries) ==
  SeedBag("a1", entries) (+) SetToBag({NewBid(user, "a1", amount)})

InitMixed ==
  /\ now = 0
  /\ \E user \in Bidders, amount \in Amounts \ {0} :
       \E entries \in {<<>>} \cup {<<[userId |-> other, amount |-> 1]>> :
                                    other \in Bidders \ {user}} :
         /\ auctions = [id \in {"a1"} |-> SeedAuction("s1", 0, 1, entries)]
         /\ bids = HalfBid(user, amount, entries)
  /\ fresh = <<>>
  /\ users = [u \in Registered |-> NewUser]
  /\ inflight = {}
  /\ resp = "none"
  /\ calls = 0

NextMixed ==
  \/ \E id \in AuctionIds, user \in Bidders, amount \in Amounts :
       PlaceBid(id, user, amount)
  \/ \E r \in inflight, fault \in PlaceBidFaults : PlaceBidTransaction(r, fault)
  \/ Tick

SpecMixed == InitMixed /\ [][NextMixed]_vars

\* the (bidder, amount) pairs of an auction's embedded list
Embedded(id) ==
  {<<auctions[id].bids[i].userId, auctions[id].bids[i].amount>> :
     i \in 1 .. Len(auctions[id].bids)}

\* the (bidder, amount) pairs of the standalone Bid documents of an auction
Standalone(id) ==
  {<<b.bidder, b.amount>> : b \in {d \in BagToSet(bids) : d.auctionItem = id}}

\* how many embedded entries, and how many Bid documents, a bidder has
EntryCount(id, user) ==
  Cardinality({i \in 1 .. Len(auctions[id].bids) : auctions[id].bids[i].userId = user})
BidCount(id, user) ==
  LET mine == {d \in BagToSet(bids) : d.auctionItem = id /\ d.bidder = user}
  IN BagCardinality([d \in mine |-> bids[d]])

MaxEmbedded(id) ==
  CHOOSE m \in {e[2] : e \in Embedded(id)} : \A e \in Embedded(id) : e[2] <= m
MaxStandalone(id) ==
  CHOOSE m \in {e[2] : e \in Standalone(id)} : \A e \in Standalone(id) : e[2] <= m

\* request r's transaction is the step being taken
Completes(r, op) == r.op = op /\ r \in inflight /\ r \notin inflight'

PlaceBids == {r \in inflight : r.op = "placeBid"}
Republishes == {r \in inflight : r.op = "republish"}

\* ------------------------------------------------------------------- claims

\* C1: every committed placeBid sets currentBid to an amount strictly greater
\* than the currentBid committed immediately before it.
C1_CommittedBidRaisesCurrentBid ==
  [][\A r \in PlaceBids :
       (Completes(r, "placeBid") /\ resp' = "Ok")
         => /\ r.id \in DOMAIN auctions
            /\ auctions'[r.id].currentBid > auctions[r.id].currentBid]_vars

\* C2: a placeBid whose amount is at most the committed currentBid when its
\* transaction runs is rejected and leaves the Auction and the Bid records
\* unchanged.
C2_LowBidRejectedInTransaction ==
  [][\A r \in PlaceBids :
       (/\ Completes(r, "placeBid")
        /\ r.id \in DOMAIN auctions
        /\ r.amount <= auctions[r.id].currentBid)
         => (resp' = "Rejected" /\ auctions' = auctions /\ bids' = bids)]_vars

\* C3: every bidder has at most one embedded entry in an auction and at most
\* one standalone Bid record for it.
C3_OneBidPerBidder ==
  \A user \in Bidders \cup Sellers \cup {Ghost} :
    /\ \A id \in DOMAIN auctions : EntryCount(id, user) <= 1
    /\ \A id \in AuctionIds : BidCount(id, user) <= 1

\* C3 witness: a bidder's lower bid is still in flight after that bidder's
\* higher concurrent bid has committed.
C3_Witness ==
  \E r \in PlaceBids :
    /\ r.id \in DOMAIN auctions
    /\ \E e \in Embedded(r.id) : e[1] = r.user /\ e[2] > r.amount
    /\ BidCount(r.id, r.user) = 1

\* C4: for every auction the embedded list and the standalone Bid records hold
\* the same (bidder, amount) pairs.
C4_EmbeddedMatchesStandalone ==
  \A id \in DOMAIN auctions : Embedded(id) = Standalone(id)

\* C4 witness: two bidders hold different amounts on the auction and every
\* request has completed.
C4_Witness ==
  \E id \in DOMAIN auctions :
    /\ Len(auctions[id].bids) = 2
    /\ auctions[id].bids[1].amount # auctions[id].bids[2].amount
    /\ inflight = {}

\* C5: an auction with bids has currentBid equal to the maximum amount of its
\* embedded entries and of its standalone Bid records.
C5_CurrentBidIsMaximum ==
  \A id \in DOMAIN auctions :
    (auctions[id].bids # <<>> /\ Embedded(id) = Standalone(id))
      => /\ auctions[id].currentBid = MaxEmbedded(id)
         /\ auctions[id].currentBid = MaxStandalone(id)

\* C6: a bid is committed only while the auction is open, startTime <= now <
\* endTime.
C6_BidsOnlyWhileOpen ==
  [][\A r \in PlaceBids :
       (Completes(r, "placeBid") /\ resp' = "Ok")
         => /\ r.id \in DOMAIN auctions
            /\ auctions[r.id].startTime <= now
            /\ now < auctions[r.id].endTime]_vars

\* C7: republish after settlement gives the winner back exactly what the
\* settlement charged: while every auction ever created is there and unsettled,
\* no user has money spent or auctions won.
C7_RepublishInvertsSettlement ==
  (/\ DOMAIN auctions = {FreshIds[i] : i \in 1 .. (Len(FreshIds) - Len(fresh))}
   /\ \A id \in DOMAIN auctions : auctions[id].highestBidder = NoUser)
    => \A u \in DOMAIN users : users[u].moneySpent = 0 /\ users[u].auctionsWon = 0

\* C8: a successful republish zeroes the unpaidCommission of the auction's
\* creator and changes no other user's.
C8_RepublishResetsCreatorCommission ==
  [][\A r \in Republishes :
       (Completes(r, "republish") /\ resp' = "Ok")
         => /\ r.id \in DOMAIN auctions
            /\ \A u \in DOMAIN users :
                 users'[u].unpaidCommission =
                   IF u = auctions[r.id].createdBy THEN 0
                   ELSE users[u].unpaidCommission]_vars

\* C9 as stated: a republish succeeds only when, as its transaction reads the
\* auction, the auction exists and has ended, newStartTime >= now and
\* newStartTime < newEndTime.
C9_RepublishPreconditionsAtTransaction ==
  [][\A r \in Republishes :
       (Completes(r, "republish") /\ resp' = "Ok")
         => /\ r.id \in DOMAIN auctions
            /\ auctions[r.id].endTime <= now
            /\ r.startTime >= now
            /\ r.startTime < r.endTime]_vars

\* C9 amended: a republish request reaches its transaction only if
\* newStartTime >= now held when it was validated and newStartTime <
\* newEndTime; its transaction fails and changes no Auction, Bid or User
\* whenever the auction is missing or has not ended as the transaction reads
\* it, and succeeds only if the auction exists and has ended then.
C9_RepublishPreconditions ==
  [][/\ \A r \in inflight' \ inflight :
          r.op = "republish" => (r.startTime >= now /\ r.startTime < r.endTime)
     /\ \A r \in Republishes :
          Completes(r, "republish")
            => /\ r.startTime < r.endTime
               /\ (r.id \notin DOMAIN auctions \/ auctions[r.id].endTime > now)
                    => (resp' # "Ok" /\ store' = store)
               /\ resp' = "Ok"
                    => (r.id \in DOMAIN auctions /\ auctions[r.id].endTime <= now)]_vars

\* C9 witness: a republish was refused in its transaction because the auction
\* is still running.
C9_Witness ==
  /\ resp = "Rejected"
  /\ \E id \in DOMAIN auctions : auctions[id].endTime > now

\* C10: a placeBid or republish whose transaction fails leaves every Auction,
\* Bid and User as it was.
C10_FailedTransactionWritesNothing ==
  [][\A r \in PlaceBids \cup Republishes :
       ((Completes(r, "placeBid") \/ Completes(r, "republish")) /\ resp' # "Ok")
         => store' = store]_vars

\* C10 witness: a republish of an ended auction with bids failed on the
\* missing requester, after the reset and the Bid deletion were issued.
C10_Witness ==
  /\ resp = "NotFound"
  /\ \E id \in DOMAIN auctions :
       auctions[id].endTime <= now /\ auctions[id].bids # <<>>

C12_IncreasingBidsAccepted ==
  [][\A r \in PlaceBids :
       (/\ Completes(r, "placeBid")
        /\ PlaceBidCheck(auctions, r.id, r.amount) = "none"
        /\ auctions[r.id].startTime <= now
        /\ now < auctions[r.id].endTime
        /\ EntryCount(r.id, r.user) = 0
        /\ BidCount(r.id, r.user) = 0)
         => /\ PlaceBidCallback(DB, r, NoBid, "none").err = "none"
            /\ resp' = "Ok" \/ (resp' = "Internal" /\ store' = store)
            /\ resp' = "Ok"
                 => /\ auctions'[r.id].currentBid = r.amount
                    /\ auctions'[r.id].bids =
                         Append(auctions[r.id].bids,
                                [userId |-> r.user, amount |-> r.amount])
                    /\ bids' = bids (+) SetToBag({NewBid(r.user, r.id, r.amount)})
                    /\ EntryCount(r.id, r.user)' = 1
                    /\ BidCount(r.id, r.user)' = 1]_vars

\* C12 witness: two bidders have bid increasing amounts on an open auction, one
\* after the other, and currentBid is the second amount.
C12_Witness ==
  \E id \in DOMAIN auctions :
    /\ auctions[id].startTime <= now
    /\ now < auctions[id].endTime
    /\ Len(auctions[id].bids) = 2
    /\ auctions[id].bids[1].amount < auctions[id].bids[2].amount
    /\ auctions[id].currentBid = auctions[id].bids[2].amount
    /\ Standalone(id) = Embedded(id)
    /\ PlaceBids = {}
    /\ resp = "Ok"

\* C13: a successful republish leaves the auction with the new window, no
\* embedded bids, currentBid 0, no highestBidder and commissionCalculated
\* false, leaves no Bid record of that auction, and leaves the other auctions
\* and their Bid records as they were, also with placeBid calls in flight.
C13_RepublishResetsAuction ==
  [][\A r \in Republishes :
       (Completes(r, "republish") /\ resp' = "Ok")
         => /\ r.id \in DOMAIN auctions
            /\ auctions' = [auctions EXCEPT ![r.id] =
                 [@ EXCEPT !.startTime = r.startTime, !.endTime = r.endTime,
                           !.bids = <<>>, !.currentBid = 0,
                           !.highestBidder = NoUser,
                           !.commissionCalculated = FALSE]]
            /\ \A b \in BagToSet(bids') : b.auctionItem # r.id
            /\ \A b \in BagToSet(bids) :
                 b.auctionItem # r.id => CopiesIn(b, bids') = CopiesIn(b, bids)]_vars

\* C13 witness: "a1" has been republished while a placeBid on it is in flight;
\* none of its Bid records is left and those of "a2" are still there.
C13_Witness ==
  /\ AuctionIds \subseteq DOMAIN auctions
  /\ auctions["a1"].startTime >= 1
  /\ auctions["a1"].bids = <<>>
  /\ Standalone("a1") = {}
  /\ Standalone("a2") # {}
  /\ \E r \in PlaceBids : r.id = "a1"

\* C14: the settlement of an ended auction with bids makes the bidder of the
\* maximum embedded amount (the earliest on ties) the highestBidder, adds
\* currentBid to the winner's moneySpent and 1 to auctionsWon, adds
\* commission(currentBid) to the creator's unpaidCommission and sets
\* commissionCalculated; the amount charged is the winner's own embedded
\* amount.
C14_SettlementChargesWinningBid ==
  [][\A id \in DOMAIN auctions :
       (/\ id \in DOMAIN auctions'
        /\ ~auctions[id].commissionCalculated
        /\ auctions'[id].commissionCalculated
        /\ auctions[id].bids # <<>>)
         => /\ auctions'[id].highestBidder = Winner(auctions[id])
            /\ users' = [users EXCEPT
                  ![Winner(auctions[id])].moneySpent = @ + auctions[id].currentBid,
                  ![Winner(auctions[id])].auctionsWon = @ + 1,
                  ![auctions[id].createdBy].unpaidCommission =
                     @ + Commission(auctions[id].currentBid)]
            /\ auctions[id].currentBid = MaxEmbedded(id)]_vars

\* C15: a placeBid that commits for a bidder who had exactly one of the two
\* representations, a Bid record or an embedded entry, leaves that bidder with
\* exactly one embedded entry and exactly one Bid record, both with the new
\* amount.
C15_MixedExistenceRepaired ==
  [][\A r \in PlaceBids :
       (/\ Completes(r, "placeBid")
        /\ resp' = "Ok"
        /\ r.id \in DOMAIN auctions
        /\ EntryCount(r.id, r.user) + BidCount(r.id, r.user) = 1)
         => /\ EntryCount(r.id, r.user)' = 1
            /\ BidCount(r.id, r.user)' = 1
            /\ <<r.user, r.amount>> \in Embedded(r.id)' \cap Standalone(r.id)']_vars

\* C16: a placeBid whose transaction cannot commit, on an auction and for a
\* bidder that exist, ends with a Rejected outcome and applies nothing.
C16_FailedCommitEndsRejected ==
  [][\A r \in PlaceBids :
       (/\ Completes(r, "placeBid")
        /\ r.id \in DOMAIN auctions
        /\ r.user \in DOMAIN users
        /\ resp' # "Ok")
         => (resp' = "Rejected" /\ store' = store)]_vars

\* C17: no bid below the auction's startingBid gets past validation, so every
\* auction's currentBid is 0 or at least its startingBid.
C17_CurrentBidAtLeastStartingBid ==
  /\ \A r \in PlaceBids :
       r.id \in DOMAIN auctions => r.amount >= auctions[r.id].startingBid
  /\ \A id \in DOMAIN auctions :
       auctions[id].currentBid = 0
         \/ auctions[id].currentBid >= auctions[id].startingBid

\* C17 witness: an auction whose startingBid is above the smallest amount has
\* taken a bid.
C17_Witness ==
  \E id \in DOMAIN auctions :
    /\ auctions[id].startingBid > 1
    /\ auctions[id].bids # <<>>
    /\ auctions[id].currentBid = auctions[id].startingBid

\* C18: no user's moneySpent or auctionsWon is ever negative.
C18_StatsNeverNegative ==
  \A u \in DOMAIN users : users[u].moneySpent >= 0 /\ users[u].auctionsWon >= 0

\* C19: a republish succeeds only on an auction that has ended as its
\* transaction reads it; it takes one currentBid and one win from the
\* auction's highestBidder, if there is one, and from nobody else, and leaves
\* the auction without highestBidder and with the new endTime, so that a second
\* republish takes nothing more and succeeds only once the new window has
\* ended.
C19_RepublishRollsBackOnce ==
  [][\A r \in Republishes :
       (Completes(r, "republish") /\ resp' = "Ok")
         => /\ r.id \in DOMAIN auctions
            /\ auctions[r.id].endTime <= now
            /\ auctions'[r.id].highestBidder = NoUser
            /\ auctions'[r.id].endTime = r.endTime
            /\ \A u \in DOMAIN users :
                 IF u = auctions[r.id].highestBidder
                   THEN /\ users'[u].moneySpent =
                             users[u].moneySpent - auctions[r.id].currentBid
                        /\ users'[u].auctionsWon = users[u].auctionsWon - 1
                   ELSE /\ users'[u].moneySpent = users[u].moneySpent
                        /\ users'[u].auctionsWon = users[u].auctionsWon]_vars

\* C19 witness: of two republish calls on a settled auction, one has committed
\* and the other is still in flight, on an auction that is running again.
C19_Witness ==
  \E r \in Republishes :
    /\ r.id \in DOMAIN auctions
    /\ users[auctions[r.id].createdBy].unpaidCommission > 0
    /\ auctions[r.id].highestBidder = NoUser
    /\ ~auctions[r.id].commissionCalculated
    /\ auctions[r.id].bids = <<>>
    /\ auctions[r.id].endTime > now

\* C20: no user owns two auctions that are active, endTime > now, at the same
\* time.
C20_OneActiveAuctionPerUser ==
  \A user \in Sellers : Cardinality(AlreadyOneAuctionActive(auctions, user, now)) <= 1

\* C21: every Bid record references an auction that exists.
C21_BidsReferenceExistingAuction ==
  \A b \in BagToSet(bids) : b.auctionItem \in DOMAIN auctions

====
